---------------------------- MODULE Spec2Model ----------------------------
(***************************************************************************)
(* Model of src/app.py: a Streamlit script that validates a date range,    *)
(* fetches a price table through the memoized get_stock_data, normalizes   *)
(* it (flatten column names, resolve the close column, derive the return   *)
(* and drawdown columns) and renders a chart, four metric cards and a      *)
(* styled table.  One script run is a sequence of steps; st.stop() ends    *)
(* the run.                                                                *)
(*                                                                         *)
(* Numbers are exact rationals [n, d] with d > 0; the pandas null (NaN)    *)
(* is the value with d = 0.  Floating-point rounding is not modelled.      *)
(* Column names are sequences of one-character strings, so that lower()    *)
(* and the substring test are computed, not assumed.                       *)
(***************************************************************************)
EXTENDS Integers, Sequences, FiniteSets, TLC

\* ------------------------------------------------------------- bounds
MaxRows == 3
MaxPrice == 2
MaxDate == 3
MaxRuns == 2
MaxTicks == 2

\* ---------------------------------------------------------- arithmetic
Abs(x) == IF x < 0 THEN -x ELSE x

RECURSIVE GCD(_, _)
GCD(a, b) == IF b = 0 THEN a ELSE GCD(b, a % b)

Null == [n |-> 0, d |-> 0]

IsNull(x) == x.d = 0

Rat(n, d) ==
    LET g == GCD(Abs(n), Abs(d))
        s == IF d < 0 THEN -1 ELSE 1
    IN  IF d = 0 THEN Null ELSE [n |-> s * (n \div g), d |-> s * (d \div g)]

Num(k) == [n |-> k, d |-> 1]

RAdd(x, y) == IF IsNull(x) \/ IsNull(y) THEN Null
              ELSE Rat(x.n * y.d + y.n * x.d, x.d * y.d)

RSub(x, y) == IF IsNull(x) \/ IsNull(y) THEN Null
              ELSE Rat(x.n * y.d - y.n * x.d, x.d * y.d)

RMul(x, y) == IF IsNull(x) \/ IsNull(y) THEN Null
              ELSE Rat(x.n * y.n, x.d * y.d)

RDiv(x, y) == IF IsNull(x) \/ IsNull(y) THEN Null
              ELSE Rat(x.n * y.d, x.d * y.n)

\* Comparisons with a null operand are false, as with NaN.
RLt(x, y) == ~IsNull(x) /\ ~IsNull(y) /\ x.n * y.d < y.n * x.d

RLe(x, y) == ~IsNull(x) /\ ~IsNull(y) /\ x.n * y.d <= y.n * x.d

RGt(x, y) == RLt(y, x)

RMax(x, y) == IF RLt(x, y) THEN y ELSE x

RMin(x, y) == IF RLt(y, x) THEN y ELSE x

\* ------------------------------------------------------- pandas Series
\* Series.ffill(): a null takes the last non-null value before it.
RECURSIVE Ffill(_)
Ffill(s) ==
    IF Len(s) <= 1 THEN s
    ELSE LET init == Ffill(SubSeq(s, 1, Len(s) - 1))
             last == s[Len(s)]
         IN  Append(init, IF IsNull(last) THEN init[Len(init)] ELSE last)

\* Variant of PctChange: the ratio data[t] / data[t-1], without the - 1.
PctChangeRatio(s) ==
    LET data == Ffill(s)
    IN  [t \in 1..Len(s) |-> IF t = 1 THEN Null ELSE RDiv(data[t], data[t - 1])]

\* Series.pct_change() with its default fill_method="pad" (pandas before
\* 3.0, whose Styler.applymap line 146 calls): first row null, then
\* data[t] / data[t-1] - 1 over the forward-filled data.
PctChange(s) ==
    LET data == Ffill(s)
    IN  [t \in 1..Len(s) |->
            IF t = 1 THEN Null ELSE RSub(RDiv(data[t], data[t - 1]), Num(1))]

\* Running accumulation that skips nulls (skipna=True): the result is null
\* where the input is null and the accumulator carries over them.
RECURSIVE Accumulate(_, _, _, _)
Accumulate(s, t, acc, kind) ==
    IF t > Len(s) THEN <<>>
    ELSE IF IsNull(s[t]) THEN <<Null>> \o Accumulate(s, t + 1, acc, kind)
    ELSE LET nxt == IF IsNull(acc) THEN s[t]
                    ELSE IF kind = "prod" THEN RMul(acc, s[t])
                    ELSE RMax(acc, s[t])
         IN  <<nxt>> \o Accumulate(s, t + 1, nxt, kind)

CumProd(s) == Accumulate(s, 1, Null, "prod")

\* Variant of CumMax: the maximum of the whole series in every row.
WholeMax(s) ==
    [t \in 1..Len(s) |->
        IF IsNull(s[t]) THEN Null
        ELSE CHOOSE m \in {s[u] : u \in 1..Len(s)} :
                ~IsNull(m) /\ \A u \in 1..Len(s) : IsNull(s[u]) \/ ~RLt(m, s[u])]

CumMax(s) == Accumulate(s, 1, Null, "max")

\* Series.dropna()
DropNa(s) == SelectSeq(s, LAMBDA x : ~IsNull(x))

\* Series.min() and Series.mean(), nulls skipped; null when nothing is left.
RECURSIVE FoldMin(_)
FoldMin(s) ==
    IF Len(s) = 0 THEN Null
    ELSE IF Len(s) = 1 THEN s[1]
    ELSE RMin(s[1], FoldMin(Tail(s)))

SeriesMin(s) == FoldMin(DropNa(s))

RECURSIVE FoldSum(_)
FoldSum(s) == IF Len(s) = 0 THEN Num(0) ELSE RAdd(s[1], FoldSum(Tail(s)))

SeriesMean(s) ==
    LET v == DropNa(s)
    IN  IF Len(v) = 0 THEN Null ELSE RDiv(FoldSum(v), Num(Len(v)))

\* ------------------------------------------------------- column names
UpperCase == <<"A", "B", "C", "D", "E", "F", "G", "H", "I", "J", "K", "L", "M",
               "N", "O", "P", "Q", "R", "S", "T", "U", "V", "W", "X", "Y", "Z">>

LowerCase == <<"a", "b", "c", "d", "e", "f", "g", "h", "i", "j", "k", "l", "m",
               "n", "o", "p", "q", "r", "s", "t", "u", "v", "w", "x", "y", "z">>

LowerChar(ch) ==
    IF \E i \in 1..Len(UpperCase) : UpperCase[i] = ch
    THEN LowerCase[CHOOSE i \in 1..Len(UpperCase) : UpperCase[i] = ch]
    ELSE ch

\* str.lower()
Lower(name) == [i \in 1..Len(name) |-> LowerChar(name[i])]

\* needle in hay
Contains(hay, needle) ==
    \E i \in 1..(Len(hay) - Len(needle) + 1) :
        SubSeq(hay, i, i + Len(needle) - 1) = needle

\* '_'.join(parts)
RECURSIVE Join(_)
Join(parts) ==
    IF Len(parts) = 0 THEN <<>>
    ELSE IF Len(parts) = 1 THEN parts[1]
    ELSE parts[1] \o <<"_">> \o Join(Tail(parts))

\* '_'.join([str(i) for i in col if i]): the empty levels are dropped.
FlattenLabel(col) == Join(SelectSeq(col, LAMBDA lv : Len(lv) > 0))

sClose == <<"C", "l", "o", "s", "e">>
sclose == <<"c", "l", "o", "s", "e">>
sCLOSE == <<"C", "L", "O", "S", "E">>
sAdjClose == <<"A", "d", "j", " ", "C", "l", "o", "s", "e">>
sAdj_Close == <<"A", "d", "j", "_", "C", "l", "o", "s", "e">>
sOpen == <<"O", "p", "e", "n">>
sVolume == <<"V", "o", "l">>
sAAPL == <<"A", "A", "P", "L">>
sDailyReturn == <<"D", "a", "i", "l", "y", " ", "R", "e", "t", "u", "r", "n">>
sCumReturn == <<"C", "u", "m", "u", "l", "a", "t", "i", "v", "e", " ",
                "R", "e", "t", "u", "r", "n">>
sMaxDrawdown == <<"M", "a", "x", " ", "D", "r", "a", "w", "d", "o", "w", "n">>

\* ---------------------------------------------------------- DataFrame
\* A frame: column labels in order, one value sequence per column, the
\* kind of its index ("Date": index named Date; "datetime": unnamed
\* datetime index; "other": neither) and whether the labels are a
\* MultiIndex.  NoneValue is Python's None.
NoneValue == [none |-> TRUE, multi |-> FALSE, columns |-> <<>>, data |-> <<>>,
              index |-> "Date", nrows |-> 0]

Frame(multi, columns, data, index, nrows) ==
    [none |-> FALSE, multi |-> multi, columns |-> columns, data |-> data,
     index |-> index, nrows |-> nrows]

HasColumn(df, name) == \E k \in 1..Len(df.columns) : df.columns[k] = name

ColumnIndex(df, name) == CHOOSE k \in 1..Len(df.columns) : df.columns[k] = name

\* df[name]
Col(df, name) == df.data[ColumnIndex(df, name)]

\* df[name] = values: overwrite the column in place when the label exists,
\* append it as the last column otherwise.
SetCol(df, name, values) ==
    IF HasColumn(df, name)
    THEN [df EXCEPT !.data[ColumnIndex(df, name)] = values]
    ELSE [df EXCEPT !.columns = Append(@, name), !.data = Append(@, values)]

\* Variant of IsEmpty: a frame with columns and no rows is not empty.
IsEmptyColumnsOnly(df) == Len(df.columns) = 0

\* df.empty
IsEmpty(df) == df.nrows = 0 \/ Len(df.columns) = 0

\* Lines 37-38: flatten a MultiIndex by joining the non-empty levels.
FlattenColumns(df) ==
    IF df.multi
    THEN [df EXCEPT !.multi = FALSE,
                    !.columns = [k \in 1..Len(df.columns) |->
                                    FlattenLabel(df.columns[k])]]
    ELSE df

\* Line 41: the close-like columns, in column order.
CloseCandidates(df) ==
    SelectSeq(df.columns, LAMBDA c : Contains(Lower(c), sclose))

\* Variant of PickClose: the last close-like column.
PickLast(cands) == cands[Len(cands)]

\* Line 46: close_candidates[0]
PickClose(cands) == cands[1]

\* Lines 47-52: the canonical Close column and the derived columns.
AddMetrics(df) ==
    LET close == Col(df, sClose)
        daily == PctChange(close)
        growth == CumProd([u \in 1..df.nrows |-> RAdd(Num(1), daily[u])])
        cumulative == [t \in 1..df.nrows |-> RSub(growth[t], Num(1))]
        peak == CumMax(close)
        drawdown == [t \in 1..df.nrows |-> RSub(RDiv(close[t], peak[t]), Num(1))]
    IN  SetCol(SetCol(SetCol(df, sDailyReturn, daily), sCumReturn, cumulative),
               sMaxDrawdown, drawdown)

\* Lines 29-57: the body of get_stock_data on the provider's response.
\* The result carries the returned value, the st.error messages issued
\* inside the function and which way the function ended.
GsdResult(kind, value, msgs) == [kind |-> kind, value |-> value, msgs |-> msgs]

GetStockDataBody(resp) ==
    IF resp.raises
    THEN GsdResult("FetchError", NoneValue, <<"Error fetching data">>)
    ELSE IF IsEmpty(resp.table)
    THEN GsdResult("NotFound", NoneValue, <<>>)
    ELSE LET df == FlattenColumns(resp.table)
             cands == CloseCandidates(df)
         IN  IF Len(cands) = 0
             THEN GsdResult("MissingField", NoneValue, <<"No Close column found">>)
             ELSE GsdResult("Ok",
                      AddMetrics(SetCol(df, sClose, Col(df, PickClose(cands)))),
                      <<>>)

\* ------------------------------------------------- provider responses
\* What yf.download can answer: an exception, or a table.  Prices are
\* positive or null; labels are distinct strings.
Prices == {Null} \cup {Num(k) : k \in 1..MaxPrice}

IndexKinds == {"Date", "datetime", "other"}

Layout(multi, columns, primaries) ==
    [multi |-> multi, columns |-> columns, primaries |-> primaries]

LayoutPlain == Layout(FALSE, <<sOpen, sClose, sVolume>>, {2})
LayoutAdjOnly == Layout(FALSE, <<sOpen, sAdj_Close, sVolume>>, {2})
LayoutAdjFirst == Layout(FALSE, <<sAdjClose, sClose>>, {1, 2})
LayoutCloseFirst == Layout(FALSE, <<sClose, sAdjClose>>, {1, 2})
LayoutUpper == Layout(FALSE, <<sCLOSE, sOpen>>, {1})
LayoutNoClose == Layout(FALSE, <<sOpen, sVolume>>, {1})
LayoutByTicker == Layout(TRUE, <<<<sAAPL, sOpen>>, <<sAAPL, sClose>>>>, {2})
LayoutByField == Layout(TRUE, <<<<sClose, sAAPL>>, <<sOpen, sAAPL>>>>, {1})
LayoutBlankLevel == Layout(TRUE, <<<<sOpen, <<>>>>, <<sClose, <<>>>>>>, {2})

Layouts == {LayoutPlain, LayoutAdjOnly, LayoutAdjFirst, LayoutCloseFirst,
            LayoutUpper, LayoutNoClose, LayoutByTicker, LayoutByField,
            LayoutBlankLevel}

\* A table over a layout: column `primary` holds the series p, every other
\* column k a constant series distinct from every price of p.
MkTable(layout, primary, p, index) ==
    Frame(layout.multi, layout.columns,
          [k \in 1..Len(layout.columns) |->
              IF k = primary THEN p
              ELSE [t \in 1..Len(p) |-> Num(MaxPrice + k)]],
          index, Len(p))

PriceSeries == UNION {[1..n -> Prices] : n \in 0..MaxRows}

\* Every layout with its price series in each of its primary columns under
\* an index named Date, and the plain layout under the other index kinds.
AllTables ==
    UNION {{MkTable(l, k, p, "Date") : k \in l.primaries, p \in PriceSeries} :
              l \in Layouts}
    \cup {MkTable(LayoutPlain, 2, p, ix) : p \in PriceSeries, ix \in IndexKinds}

Response(raises, table) == [raises |-> raises, table |-> table]

FetchRaises == Response(TRUE, NoneValue)

AllResponses == {FetchRaises} \cup {Response(FALSE, t) : t \in AllTables}

MenuResponses ==
    {FetchRaises,
     Response(FALSE, MkTable(LayoutPlain, 2, <<>>, "Date")),
     Response(FALSE, MkTable(LayoutNoClose, 1, <<Num(1), Num(2)>>, "Date")),
     Response(FALSE, MkTable(LayoutByTicker, 2, <<Num(1), Num(2), Num(1)>>, "Date")),
     Response(FALSE, MkTable(LayoutPlain, 2, <<Null, Null>>, "Date"))}

\* --------------------------------------------------------------- state
VARIABLES
    today,        \* date.today()
    clock,        \* wall clock, in ticks of TickSeconds
    raw,          \* the provider's answer to the last yf.download call
    cache,        \* st.cache_data entries of get_stock_data
    pc,           \* position of the script run; "idle" between runs
    runs,         \* script runs started
    req,          \* ticker_symbol, start_date, end_date
    stock_data,   \* the value returned by get_stock_data
    gsd,          \* how get_stock_data ended in this run ("none": not called)
    gsdCalls,     \* calls of get_stock_data in this run
    fetchCalls,   \* calls of yf.download in this run
    messages,     \* st.warning / st.error shown in this run
    rendered,     \* page elements shown in this run
    chart,        \* the series handed to px.line
    metrics,      \* the four metric cards' values
    table,        \* the styled table
    outcome       \* how the run ended

vars == <<today, clock, raw, cache, pc, runs, req, stock_data, gsd, gsdCalls,
          fetchCalls, messages, rendered, chart, metrics, table, outcome>>

ttl == 3600

TickSeconds == 1800

Tickers == {"AAPL"}

Dates == 0..MaxDate

Msg(level, text, ticker) == [level |-> level, text |-> text, ticker |-> ticker]

NoChart == [x |-> <<>>, y |-> <<>>]

NoMetrics == [shown |-> FALSE, total_return |-> Null, avg_daily_return |-> Null,
              max_drawdown |-> Null]

NoTable == [close |-> <<>>, daily_return |-> <<>>, styles |-> <<>>]

Request(ticker, start, end) == [ticker |-> ticker, start |-> start, end |-> end]

FreshPage ==
    /\ stock_data = NoneValue
    /\ gsd = "none"
    /\ gsdCalls = 0
    /\ fetchCalls = 0
    /\ messages = <<>>
    /\ rendered = {}
    /\ chart = NoChart
    /\ metrics = NoMetrics
    /\ table = NoTable

\* Lines 13-19: the page is opened and the script runs on the defaults
\* (start a year, here one date unit, before today; end today).
Init ==
    /\ today = 2
    /\ clock = 0
    /\ raw = FetchRaises
    /\ cache = {}
    /\ pc = "validate"
    /\ runs = 1
    /\ req = Request("AAPL", today - 1, today)
    /\ outcome = "Running"
    /\ FreshPage

\* Lines 13-19: a rerun, or a change of one widget, runs the script from
\* the top with the new inputs.
Submit ==
    /\ pc = "idle"
    /\ runs < MaxRuns
    /\ \E t \in Tickers, s \in Dates, e \in Dates :
          /\ Cardinality({f \in {"ticker", "start", "end"} :
                             Request(t, s, e)[f] # req[f]}) <= 1
          /\ req' = Request(t, s, e)
    /\ runs' = runs + 1
    /\ pc' = "validate"
    /\ outcome' = "Running"
    /\ stock_data' = NoneValue
    /\ gsd' = "none"
    /\ gsdCalls' = 0
    /\ fetchCalls' = 0
    /\ messages' = <<>>
    /\ rendered' = {}
    /\ chart' = NoChart
    /\ metrics' = NoMetrics
    /\ table' = NoTable
    /\ UNCHANGED <<today, clock, raw, cache>>

\* Time passes between runs.
Tick ==
    /\ pc = "idle"
    /\ clock < MaxTicks
    /\ clock' = clock + 1
    /\ UNCHANGED <<today, raw, cache, pc, runs, req, stock_data, gsd, gsdCalls,
                   fetchCalls, messages, rendered, chart, metrics, table, outcome>>

\* Variant of InvalidRange: the end date is not compared with today.
InvalidRangeNoEndCheck(r) == r.start > r.end \/ r.start > today

\* Line 22
InvalidRange(r) == r.start > r.end \/ r.start > today \/ r.end > today

\* Lines 22-24: warn and stop.
ValidateReject ==
    /\ pc = "validate"
    /\ InvalidRange(req)
    /\ messages' = Append(messages, Msg("warning", "Please enter a valid date range.", ""))
    /\ outcome' = "InvalidDateRange"
    /\ pc' = "idle"
    /\ UNCHANGED <<today, clock, raw, cache, runs, req, stock_data, gsd, gsdCalls,
                   fetchCalls, rendered, chart, metrics, table>>

ValidateAccept ==
    /\ pc = "validate"
    /\ ~InvalidRange(req)
    /\ pc' = "fetch"
    /\ UNCHANGED <<today, clock, raw, cache, runs, req, stock_data, gsd, gsdCalls,
                   fetchCalls, messages, rendered, chart, metrics, table, outcome>>

\* Line 28: an entry answers a call while it is younger than ttl seconds.
Live(e) == (clock - e.stored) * TickSeconds < ttl

Hit(r) == {e \in cache : e.key = r /\ Live(e)}

\* Lines 28, 60: a call answered from the cache; the function body is not
\* run and the messages it issued when the entry was made are replayed.
CacheHit ==
    /\ pc = "fetch"
    /\ Hit(req) # {}
    /\ LET e == CHOOSE e \in Hit(req) : TRUE
       IN  /\ stock_data' = e.result.value
           /\ gsd' = e.result.kind
           /\ messages' = messages \o
                 [i \in 1..Len(e.result.msgs) |-> Msg("error", e.result.msgs[i], "")]
    /\ gsdCalls' = gsdCalls + 1
    /\ pc' = "check"
    /\ UNCHANGED <<today, clock, raw, cache, runs, req, fetchCalls, rendered,
                   chart, metrics, table, outcome>>

\* What a miss stores: every returned value, None included.
Store(r, res) ==
    {e \in cache : e.key # r} \cup {[key |-> r, result |-> res, stored |-> clock]}

\* Lines 28-57, 60: a miss runs the body, which calls yf.download once,
\* and memoizes what it returns.
CacheMiss(responses) ==
    /\ pc = "fetch"
    /\ Hit(req) = {}
    /\ \E resp \in responses :
          LET res == GetStockDataBody(resp)
          IN  /\ raw' = resp
              /\ stock_data' = res.value
              /\ gsd' = res.kind
              /\ messages' = messages \o
                    [i \in 1..Len(res.msgs) |-> Msg("error", res.msgs[i], "")]
              /\ cache' = Store(req, res)
    /\ gsdCalls' = gsdCalls + 1
    /\ fetchCalls' = fetchCalls + 1
    /\ pc' = "check"
    /\ UNCHANGED <<today, clock, runs, req, rendered, chart, metrics, table,
                   outcome>>

\* Lines 62-64
CheckNoneHalt ==
    /\ pc = "check"
    /\ stock_data.none
    /\ messages' = Append(messages, Msg("error", "No data found", req.ticker))
    /\ outcome' = "NoData"
    /\ pc' = "idle"
    /\ UNCHANGED <<today, clock, raw, cache, runs, req, stock_data, gsd, gsdCalls,
                   fetchCalls, rendered, chart, metrics, table>>

\* Variant of CheckNonePass: the run goes on whatever was returned.
CheckNonePassAlways ==
    /\ pc = "check"
    /\ pc' = "chart"
    /\ UNCHANGED <<today, clock, raw, cache, runs, req, stock_data, gsd, gsdCalls,
                   fetchCalls, messages, rendered, chart, metrics, table, outcome>>

CheckNonePass ==
    /\ pc = "check"
    /\ ~stock_data.none
    /\ pc' = "chart"
    /\ UNCHANGED <<today, clock, raw, cache, runs, req, stock_data, gsd, gsdCalls,
                   fetchCalls, messages, rendered, chart, metrics, table, outcome>>

\* Lines 86-90: plot_df["Close"], taken from the first close-like column
\* when the frame has no column of that name.
PlotClose(df) ==
    IF HasColumn(df, sClose) THEN Col(df, sClose)
    ELSE Col(df, PickClose(CloseCandidates(df)))

\* Variant of ChartError: without the check of line 96.
ChartErrorNoNullCheck(df) ==
    IF df.index = "other" THEN "No 'Date' column found or inferred."
    ELSE IF ~HasColumn(df, sClose) /\ Len(CloseCandidates(df)) = 0
    THEN "No 'Close' column found in the data."
    ELSE ""

\* Lines 76-98: the checks before the chart, on plot_df =
\* stock_data.copy().reset_index(); the first failing check's message, or
\* "" when the chart can be plotted.
ChartError(df) ==
    IF df.index = "other" THEN "No 'Date' column found or inferred."
    ELSE IF ~HasColumn(df, sClose) /\ Len(CloseCandidates(df)) = 0
    THEN "No 'Close' column found in the data."
    ELSE IF Len(DropNa(PlotClose(df))) = 0
    THEN "Close column contains only null values."
    ELSE ""

\* Lines 67-98: subheader and diagnostics are written, then a failing
\* check shows its error and stops the run.
ChartHalt ==
    /\ pc = "chart"
    /\ ChartError(stock_data) # ""
    /\ rendered' = rendered \cup {"preview"}
    /\ messages' = Append(messages, Msg("error", ChartError(stock_data), ""))
    /\ outcome' = "ChartError"
    /\ pc' = "idle"
    /\ UNCHANGED <<today, clock, raw, cache, runs, req, stock_data, gsd, gsdCalls,
                   fetchCalls, chart, metrics, table>>

\* Lines 100-117: px.line over (Date, Close) of plot_df.
ChartPlot ==
    /\ pc = "chart"
    /\ ChartError(stock_data) = ""
    /\ rendered' = rendered \cup {"preview", "chart"}
    /\ chart' = [x |-> [t \in 1..stock_data.nrows |-> t], y |-> PlotClose(stock_data)]
    /\ pc' = "metrics"
    /\ UNCHANGED <<today, clock, raw, cache, runs, req, stock_data, gsd, gsdCalls,
                   fetchCalls, messages, metrics, table, outcome>>

\* Lines 121-130: the metric cards (the volatility card needs a square
\* root and is left out).
MetricCards ==
    /\ pc = "metrics"
    /\ metrics' = [shown |-> TRUE,
                   total_return |-> Col(stock_data, sCumReturn)[stock_data.nrows],
                   avg_daily_return |-> SeriesMean(Col(stock_data, sDailyReturn)),
                   max_drawdown |-> SeriesMin(Col(stock_data, sMaxDrawdown))]
    /\ rendered' = rendered \cup {"metrics"}
    /\ pc' = "table"
    /\ UNCHANGED <<today, clock, raw, cache, runs, req, stock_data, gsd, gsdCalls,
                   fetchCalls, messages, chart, table, outcome>>

\* Lines 138-141
highlight_returns(val) ==
    IF IsNull(val) THEN ""
    ELSE IF RGt(val, Num(0)) THEN "color: green" ELSE "color: red"

\* Lines 135-148: the table of Close and Daily Return; the Styler colours
\* the Daily Return cells and does not write to stock_data.
DataTable ==
    /\ pc = "table"
    /\ table' = [close |-> Col(stock_data, sClose),
                 daily_return |-> Col(stock_data, sDailyReturn),
                 styles |-> [t \in 1..stock_data.nrows |->
                               highlight_returns(Col(stock_data, sDailyReturn)[t])]]
    /\ rendered' = rendered \cup {"table"}
    /\ outcome' = "Rendered"
    /\ pc' = "idle"
    /\ UNCHANGED <<today, clock, raw, cache, runs, req, stock_data, gsd, gsdCalls,
                   fetchCalls, messages, chart, metrics>>

Next ==
    \/ Submit
    \/ Tick
    \/ ValidateReject
    \/ ValidateAccept
    \/ CacheHit
    \/ CacheMiss(MenuResponses)
    \/ CheckNoneHalt
    \/ CheckNonePass
    \/ ChartHalt
    \/ ChartPlot
    \/ MetricCards
    \/ DataTable

Spec == Init /\ [][Next]_vars

\* The first run of the script over every response the provider can give.
NextNorm ==
    \/ ValidateAccept
    \/ CacheMiss(AllResponses)
    \/ CheckNoneHalt
    \/ CheckNonePass
    \/ ChartHalt
    \/ ChartPlot
    \/ MetricCards
    \/ DataTable

SpecNorm == Init /\ [][NextNorm]_vars

\* ---------------------------------------------------------- properties
ErrorKinds == {"NotFound", "MissingField", "FetchError"}

Stages == {"chart", "metrics", "table"}

NothingPresented ==
    /\ rendered \cap Stages = {}
    /\ chart = NoChart
    /\ ~metrics.shown
    /\ table = NoTable

Shown(level, text) ==
    \E i \in 1..Len(messages) : messages[i].level = level /\ messages[i].text = text

\* The provider answered this run's call with a table.
FetchedTable == fetchCalls = 1 /\ ~raw.raises

\* The column names of the raw table after flattening, in column order.
RawNames ==
    [k \in 1..Len(raw.table.columns) |->
        IF raw.table.multi THEN FlattenLabel(raw.table.columns[k])
        ELSE raw.table.columns[k]]

CloseLike(k) == Contains(Lower(RawNames[k]), sclose)

HasCloseLike == \E k \in 1..Len(RawNames) : CloseLike(k)

FirstCloseLike ==
    CHOOSE k \in 1..Len(RawNames) :
        CloseLike(k) /\ \A j \in 1..(k - 1) : ~CloseLike(j)

NoNulls(s) == \A t \in 1..Len(s) : ~IsNull(s[t])

AllNulls(s) == \A t \in 1..Len(s) : IsNull(s[t])

IsRunningMax(c, t) ==
    ~IsNull(c[t]) /\ \A u \in 1..t : IsNull(c[u]) \/ RLe(c[u], c[t])

PeakUpTo(c, t) ==
    CHOOSE m \in {c[u] : u \in 1..t} :
        ~IsNull(m) /\ \A u \in 1..t : IsNull(c[u]) \/ RLe(c[u], m)

\* C1: a request with start > end, or with start or end after today, halts
\* at validation with a warning: get_stock_data is never called, no fetch
\* is issued, and no chart, metric card or table is rendered.
C1_InvalidRangeHaltsAtValidation ==
    (req.start > req.end \/ req.start > today \/ req.end > today) =>
        /\ pc \in {"validate", "idle"}
        /\ gsdCalls = 0
        /\ fetchCalls = 0
        /\ NothingPresented
        /\ pc = "idle" =>
              /\ outcome = "InvalidDateRange"
              /\ Shown("warning", "Please enter a valid date range.")

C1_Witness ==
    /\ pc = "idle"
    /\ outcome = "InvalidDateRange"
    /\ req.start > req.end
    /\ req.start <= today
    /\ Len(messages) = 1

\* C2: when get_stock_data ends in NotFound, MissingField or FetchError the
\* run halts before the chart, metric-card and table stages, and ends with
\* an error message shown to the user.
C2_NoPartialResultsAfterError ==
    gsd \in ErrorKinds =>
        /\ pc \in {"check", "idle"}
        /\ stock_data = NoneValue
        /\ NothingPresented
        /\ pc = "idle" =>
              /\ outcome = "NoData"
              /\ Shown("error", "No data found")

C2_Witness ==
    /\ pc = "idle"
    /\ gsd = "FetchError"
    /\ outcome = "NoData"
    /\ Shown("error", "Error fetching data")
    /\ Shown("error", "No data found")

\* C3: an error of an earlier request does not decide the outcome of a
\* later one: a run that ends in NotFound, MissingField or FetchError has
\* asked the provider itself.
C3_ErrorsDoNotCarryOver ==
    (pc = "idle" /\ gsd \in ErrorKinds) => fetchCalls = 1

\* C4: for a non-empty raw table the canonical Close column equals the
\* first column, in column order after flattening, whose name contains
\* "close" case-insensitively; with no such column the result is the
\* MissingField failure and no series.
C4_FirstCloseLikeColumn ==
    (FetchedTable /\ raw.table.nrows > 0) =>
        IF HasCloseLike
        THEN /\ gsd = "Ok"
             /\ ~stock_data.none
             /\ HasColumn(stock_data, sClose)
             /\ HasColumn(stock_data, RawNames[FirstCloseLike])
             /\ Col(stock_data, sClose) = raw.table.data[FirstCloseLike]
        ELSE /\ gsd = "MissingField"
             /\ stock_data = NoneValue

C4_Witness ==
    /\ FetchedTable
    /\ raw.table.multi
    /\ raw.table.columns = LayoutByField.columns
    /\ raw.table.nrows = MaxRows
    /\ HasColumn(stock_data, sClose \o <<"_">> \o sAAPL)
    /\ Col(stock_data, sClose) = raw.table.data[1]
    /\ NoNulls(raw.table.data[1])

\* C5: every column of the raw input is present in the normalized result
\* with unchanged values.
C5_RawColumnsIntact ==
    (FetchedTable /\ gsd = "Ok") =>
        \A k \in 1..Len(RawNames) :
            /\ HasColumn(stock_data, RawNames[k])
            /\ Col(stock_data, RawNames[k]) = raw.table.data[k]

\* C6: a raw input with no rows gives NotFound with no derived column
\* computed; the caller shows a message naming the ticker and halts.
C6_EmptyInputNotFound ==
    (FetchedTable /\ raw.table.nrows = 0) =>
        /\ gsd = "NotFound"
        /\ stock_data = NoneValue
        /\ pc \in {"check", "idle"}
        /\ NothingPresented
        /\ pc = "idle" =>
              /\ outcome = "NoData"
              /\ \E i \in 1..Len(messages) :
                    /\ messages[i].level = "error"
                    /\ messages[i].text = "No data found"
                    /\ messages[i].ticker = req.ticker

C6_Witness ==
    /\ pc = "idle"
    /\ FetchedTable
    /\ raw.table.nrows = 0
    /\ HasCloseLike
    /\ outcome = "NoData"

C8_TotalReturnTelescopes ==
    (gsd = "Ok" /\ stock_data.nrows >= 2) =>
        LET n == stock_data.nrows
            c == Col(stock_data, sClose)
            dr == Col(stock_data, sDailyReturn)
            cr == Col(stock_data, sCumReturn)
        IN  /\ \A t \in 2..n : dr[t] = RSub(RDiv(c[t], c[t - 1]), Num(1))
            /\ cr[n] = RSub(RDiv(c[n], c[1]), Num(1))
            /\ metrics.shown => metrics.total_return = RSub(RDiv(c[n], c[1]), Num(1))

\* C8 amended: the same, for every normalized series with n >= 2 rows and
\* no null value in Close.
C8_TotalReturnTelescopesNoNulls ==
    (gsd = "Ok" /\ stock_data.nrows >= 2 /\ NoNulls(Col(stock_data, sClose))) =>
        LET n == stock_data.nrows
            c == Col(stock_data, sClose)
            dr == Col(stock_data, sDailyReturn)
            cr == Col(stock_data, sCumReturn)
        IN  /\ IsNull(dr[1])
            /\ \A t \in 2..n : dr[t] = RSub(RDiv(c[t], c[t - 1]), Num(1))
            /\ cr[n] = RSub(RDiv(c[n], c[1]), Num(1))
            /\ metrics.shown => metrics.total_return = RSub(RDiv(c[n], c[1]), Num(1))

C8_Witness ==
    /\ metrics.shown
    /\ stock_data.nrows = MaxRows
    /\ NoNulls(Col(stock_data, sClose))
    /\ Col(stock_data, sClose)[1] = Num(2)
    /\ Col(stock_data, sClose)[2] = Num(2)
    /\ Col(stock_data, sClose)[MaxRows] = Num(1)
    /\ metrics.total_return = Rat(-1, 2)

\* C9 as stated: in every row Max Drawdown[t] is <= 0, and it is 0 exactly
\* where Close[t] is the running maximum; the reported Max Drawdown is <= 0.
C9_DrawdownNonPositive ==
    gsd = "Ok" =>
        LET c == Col(stock_data, sClose)
            md == Col(stock_data, sMaxDrawdown)
        IN  /\ \A t \in 1..stock_data.nrows :
                  /\ RLe(md[t], Num(0))
                  /\ md[t] = Num(0) <=> IsRunningMax(c, t)
            /\ metrics.shown => RLe(metrics.max_drawdown, Num(0))

\* C9 amended: in every row with a non-null Close, Max Drawdown[t] =
\* Close[t] / max(non-null Close[1..t]) - 1 is <= 0, and 0 exactly where
\* Close[t] is the running maximum; in a row with a null Close it is null;
\* the reported Max Drawdown is <= 0.
C9_DrawdownNonPositiveWhereDefined ==
    gsd = "Ok" =>
        LET c == Col(stock_data, sClose)
            md == Col(stock_data, sMaxDrawdown)
        IN  /\ \A t \in 1..stock_data.nrows :
                  IF IsNull(c[t]) THEN IsNull(md[t])
                  ELSE /\ md[t] = RSub(RDiv(c[t], PeakUpTo(c, t)), Num(1))
                       /\ RLe(md[t], Num(0))
                       /\ md[t] = Num(0) <=> IsRunningMax(c, t)
            /\ metrics.shown => RLe(metrics.max_drawdown, Num(0))

C9_Witness ==
    /\ metrics.shown
    /\ stock_data.nrows = MaxRows
    /\ NoNulls(Col(stock_data, sClose))
    /\ Col(stock_data, sMaxDrawdown)[1] = Num(0)
    /\ Col(stock_data, sMaxDrawdown)[2] = Num(0)
    /\ Col(stock_data, sMaxDrawdown)[MaxRows] = Rat(-1, 2)
    /\ metrics.max_drawdown = Rat(-1, 2)

\* C10: the colouring gives every non-negative Daily Return one treatment,
\* every negative one another and a null the blank one, and leaves the
\* Daily Return and Close values of the normalized series unchanged.
C10_ColouringBySign ==
    "table" \in rendered =>
        LET dr == table.daily_return
            st == table.styles
            rows == 1..Len(dr)
            NonNeg(t) == RLe(Num(0), dr[t])
        IN  /\ \A t \in rows : IsNull(dr[t]) <=> st[t] = ""
            /\ \A t, u \in rows :
                  (~IsNull(dr[t]) /\ ~IsNull(dr[u])) =>
                      ((NonNeg(t) <=> NonNeg(u)) <=> st[t] = st[u])
            /\ table.close = Col(stock_data, sClose)
            /\ dr = Col(stock_data, sDailyReturn)
            /\ \E e \in cache : e.key = req /\ e.result.value = stock_data

=============================================================================
